---- MODULE Spec2Model ----
(***************************************************************************)
(* QuerySplitter of go/vt/tabletserver/query_splitter.go as a state        *)
(* machine: a splitter is constructed (NewQuerySplitter), validated        *)
(* (validateQuery) and then asked for splits (split) any number of times.  *)
(*                                                                         *)
(* Go's int64/uint64 are modelled with Bits bits instead of 64 (TLC's own  *)
(* integers have 32), with the same two's-complement wrap-around.          *)
(* float64 values are modelled as exact reduced fractions <<n, d>>; the    *)
(* rounding of float64 arithmetic is not modelled.                         *)
(***************************************************************************)
EXTENDS Integers, Sequences, FiniteSets, TLC

\* Width of the modelled int64/uint64.
Bits == 4
\* Largest split count a caller asks for.
MaxSplitCount == 3

MinInt == -(2 ^ (Bits - 1))
MaxInt == 2 ^ (Bits - 1) - 1
MaxUint == 2 ^ Bits - 1

\* int64 arithmetic result: two's-complement wrap-around.
WrapInt(x) == ((x - MinInt) % (2 ^ Bits)) + MinInt
\* uint64 arithmetic result.
WrapUint(x) == x % (2 ^ Bits)
\* Go's integer division truncates toward zero (b > 0 here).
Quot(a, b) == IF a >= 0 THEN a \div b ELSE -((-a) \div b)

RECURSIVE GCD(_, _)
GCD(a, b) == IF b = 0 THEN a ELSE GCD(b, a % b)
Abs(a) == IF a < 0 THEN -a ELSE a
\* A float64, as the reduced fraction n/d with d > 0.
Frac(n, d) ==
  LET g == GCD(Abs(n), d)
  IN  <<n \div g, d \div g>>

startBindVarName == "_splitquery_start"
endBindVarName == "_splitquery_end"

(***************************************************************************)
(* Errors. A Go error is a record; the nil error is NilErr.                *)
(***************************************************************************)
NilErr == [msg |-> "nil"]
Errorf(m) == [msg |-> m]

(***************************************************************************)
(* sqltypes.Value: a type tag and the value's text.  Text is a sequence of *)
(* characters.                                                             *)
(***************************************************************************)
Digit == <<"0", "1", "2", "3", "4", "5", "6", "7", "8", "9">>

RECURSIVE FormatUint(_)
\* strconv.AppendUint(nil, n, 10)
FormatUint(n) ==
  IF n < 10 THEN <<Digit[n + 1]>>
  ELSE FormatUint(n \div 10) \o <<Digit[(n % 10) + 1]>>

\* strconv.AppendInt(nil, n, 10)
FormatInt(n) == IF n < 0 THEN <<"-">> \o FormatUint(-n) ELSE FormatUint(n)

DigitVal(c) == CHOOSE k \in 0..9 : Digit[k + 1] = c
IsDigit(c) == \E k \in 1..10 : Digit[k] = c

RECURSIVE DigitsVal(_)
DigitsVal(s) ==
  IF Len(s) = 0 THEN 0
  ELSE DigitsVal(SubSeq(s, 1, Len(s) - 1)) * 10 + DigitVal(s[Len(s)])

AllDigits(s) == Len(s) > 0 /\ \A k \in 1..Len(s) : IsDigit(s[k])

\* The integer a decimal text denotes: [ok, n].
ParseDecimal(s) ==
  IF Len(s) > 0 /\ (s[1] = "-" \/ s[1] = "+")
  THEN IF AllDigits(Tail(s))
       THEN [ok |-> TRUE, n |-> IF s[1] = "-" THEN -DigitsVal(Tail(s)) ELSE DigitsVal(Tail(s))]
       ELSE [ok |-> FALSE, n |-> 0]
  ELSE IF AllDigits(s) THEN [ok |-> TRUE, n |-> DigitsVal(s)]
       ELSE [ok |-> FALSE, n |-> 0]

NullValue == [typ |-> "NULL", val |-> <<>>]
IsNull(v) == v.typ = "NULL"

\* Value.ParseInt64: strconv.ParseInt(text, 10, 64); syntax or range error.
ParseInt64(v) ==
  LET p == ParseDecimal(v.val)
  IN  IF ~p.ok THEN [n |-> 0, err |-> Errorf("strconv.ParseInt: invalid syntax")]
      ELSE IF p.n < MinInt \/ p.n > MaxInt
           THEN [n |-> 0, err |-> Errorf("strconv.ParseInt: value out of range")]
           ELSE [n |-> p.n, err |-> NilErr]

\* Value.ParseUint64: strconv.ParseUint(text, 10, 64); no sign is accepted.
ParseUint64(v) ==
  IF ~AllDigits(v.val) THEN [n |-> 0, err |-> Errorf("strconv.ParseUint: invalid syntax")]
  ELSE IF DigitsVal(v.val) > MaxUint
       THEN [n |-> 0, err |-> Errorf("strconv.ParseUint: value out of range")]
       ELSE [n |-> DigitsVal(v.val), err |-> NilErr]

\* strconv.ParseFloat(text, 64) on a decimal integer text.
ParseFloat(v) ==
  LET p == ParseDecimal(v.val)
  IN  IF ~p.ok THEN [n |-> <<0, 1>>, err |-> Errorf("strconv.ParseFloat: invalid syntax")]
      ELSE [n |-> <<p.n, 1>>, err |-> NilErr]

\* sqltypes.BuildValue, by the Go type of its argument.
BuildValueInt64(n) == [typ |-> "INT64", val |-> FormatInt(n)]
BuildValueUint64(n) == [typ |-> "UINT64", val |-> FormatUint(n)]
BuildValueFloat64(f) == [typ |-> "FLOAT64", val |-> f]
BuildValueBytes(b) == [typ |-> "VARBINARY", val |-> b]

\* Value.ToNative: the Go value a Value holds, tagged with its Go type.
ToNative(v) ==
  CASE v.typ = "INT64" -> [t |-> "int64", n |-> ParseInt64(v).n]
    [] v.typ = "UINT64" -> [t |-> "uint64", n |-> ParseUint64(v).n]
    [] v.typ = "FLOAT64" -> [t |-> "float64", frac |-> v.val]
    [] v.typ = "VARBINARY" -> [t |-> "bytes", bytes |-> v.val]
    [] OTHER -> [t |-> "nil"]

\* An int64 held in a field or a bind variable.
Int64(n) == [t |-> "int64", n |-> n]
\* An int64 beyond TLC's integers, as its base-2^16 digits, most significant first.
Int64Limbs(l) == [t |-> "int64 limbs", limbs |-> l]

(***************************************************************************)
(* querypb.Type families (sqltypes.IsSigned, IsUnsigned, IsFloat,          *)
(* IsBinary).                                                              *)
(***************************************************************************)
IsSigned(t) == t \in {"INT8", "INT16", "INT24", "INT32", "INT64"}
IsUnsigned(t) == t \in {"UINT8", "UINT16", "UINT24", "UINT32", "UINT64"}
IsFloat(t) == t \in {"FLOAT32", "FLOAT64"}
IsBinary(t) == t \in {"BLOB", "VARBINARY", "BINARY"}

(***************************************************************************)
(* SQL text, the statement tree and the schema.  A SQL text is a sequence  *)
(* of tokens.  sqlparser.Parse is a table over the statements of SqlTexts; *)
(* sqlparser.String renders a tree in the printer's canonical lower case.  *)
(***************************************************************************)
NilSel == [stmt |-> "nil"]
NilWhere == [Type |-> "nil", Expr |-> <<>>]
TableExpr(name) == [kind |-> "aliased", Expr |-> [kind |-> "table", Name |-> name]]
SubqueryExpr == [kind |-> "aliased", Expr |-> [kind |-> "subquery", Name |-> ""]]
JoinExpr == [kind |-> "join", Expr |-> [kind |-> "join", Name |-> ""]]

Select(from, where) ==
  [stmt |-> "select", Distinct |-> "", GroupBy |-> <<>>, Having |-> NilWhere,
   From |-> from, OrderBy |-> <<>>, Limit |-> <<>>, Lock |-> "", Where |-> where]

\* The WHERE expression of the statements that have one: a = :a or b = 2.
OrigExpr == <<"raw", <<"a", "=", ":a", "or", "b", "=", "2">>>>
OrigWhere == [Type |-> "where", Expr |-> OrigExpr]

SqlPlain == <<"SELECT", "*", "FROM", "t">>
SqlWhere == <<"select", "*", "from", "t", "where", "a", "=", ":a", "or", "b", "=", "2">>
SqlJoin == <<"select", "*", "from", "t", "join", "u">>
SqlTwoTables == <<"select", "*", "from", "t", ",", "u">>
SqlSubquery == <<"select", "*", "from", "(", "select", "*", "from", "t", ")", "as", "s">>
SqlDistinct == <<"select", "distinct", "*", "from", "t">>
SqlGroupBy == <<"select", "*", "from", "t", "group", "by", "a">>
SqlHaving == <<"select", "*", "from", "t", "having", "a", "=", "1">>
SqlOrderBy == <<"select", "*", "from", "t", "order", "by", "a">>
SqlLimit == <<"select", "*", "from", "t", "limit", "5">>
SqlLock == <<"select", "*", "from", "t", "for", "update">>
SqlDelete == <<"delete", "from", "t">>
SqlSyntax == <<"selec", "*", "from", "t">>
SqlNoTable == <<"select", "*", "from", "ghost">>
SqlNoPK == <<"select", "*", "from", "nopk">>

SqlTexts ==
  {SqlPlain, SqlWhere, SqlJoin, SqlTwoTables, SqlSubquery, SqlDistinct, SqlGroupBy,
   SqlHaving, SqlOrderBy, SqlLimit, SqlLock, SqlDelete, SqlSyntax, SqlNoTable, SqlNoPK}

\* sqlparser.Parse: [stmt, err].
Parse(sql) ==
  LET t == <<TableExpr("t")>>
      ok(s) == [stmt |-> s, err |-> NilErr]
  IN  CASE sql = SqlPlain -> ok(Select(t, NilWhere))
        [] sql = SqlWhere -> ok(Select(t, OrigWhere))
        [] sql = SqlJoin -> ok(Select(<<JoinExpr>>, NilWhere))
        [] sql = SqlTwoTables -> ok(Select(<<TableExpr("t"), TableExpr("u")>>, NilWhere))
        [] sql = SqlSubquery -> ok(Select(<<SubqueryExpr>>, NilWhere))
        [] sql = SqlDistinct -> ok([Select(t, NilWhere) EXCEPT !.Distinct = "distinct "])
        [] sql = SqlGroupBy -> ok([Select(t, NilWhere) EXCEPT !.GroupBy = <<"a">>])
        [] sql = SqlHaving ->
             ok([Select(t, NilWhere) EXCEPT
                   !.Having = [Type |-> "having", Expr |-> <<"raw", <<"a", "=", "1">>>>]])
        [] sql = SqlOrderBy -> ok([Select(t, NilWhere) EXCEPT !.OrderBy = <<"a">>])
        [] sql = SqlLimit -> ok([Select(t, NilWhere) EXCEPT !.Limit = <<"5">>])
        [] sql = SqlLock -> ok([Select(t, NilWhere) EXCEPT !.Lock = " for update"])
        [] sql = SqlDelete -> ok([stmt |-> "delete"])
        [] sql = SqlNoTable -> ok(Select(<<TableExpr("ghost")>>, NilWhere))
        [] sql = SqlNoPK -> ok(Select(<<TableExpr("nopk")>>, NilWhere))
        [] OTHER -> [stmt |-> NilSel, err |-> Errorf("syntax error")]

\* sqlparser.GetTableName: the empty identifier for anything but a plain table.
GetTableName(expr) == IF expr.kind = "table" THEN expr.Name ELSE ""

RECURSIVE FormatExpr(_)
\* The text of an expression node, as sqlparser.String prints it.
FormatExpr(e) ==
  CASE e[1] = "raw" -> e[2]
    [] e[1] = "cmp" -> <<e[3], e[2], e[4]>>
    [] e[1] = "and" -> FormatExpr(e[2]) \o <<"and">> \o FormatExpr(e[3])
    [] e[1] = "paren" -> <<"(">> \o FormatExpr(e[2]) \o <<")">>

\* sqlparser.String of a SELECT that passed validateQuery.
String(sel) ==
  <<"select", "*", "from", GetTableName(sel.From[1].Expr)>>
    \o (IF sel.Where = NilWhere THEN <<>> ELSE <<"where">> \o FormatExpr(sel.Where.Expr))

\* The tables the schema engine knows.  Table t has primary key (id2, id) and
\* a secondary index on idx; its column noidx is in no index.
NilTable == [Name |-> "", Columns |-> <<>>, PKColumns |-> <<>>, Indexes |-> <<>>]
TableT ==
  [Name |-> "t", Columns |-> <<"id", "id2", "idx", "noidx">>, PKColumns |-> <<2, 1>>,
   Indexes |-> <<[Name |-> "PRIMARY", Columns |-> <<"id2", "id">>],
                 [Name |-> "idx_k", Columns |-> <<"idx">>]>>]
TableU ==
  [Name |-> "u", Columns |-> <<"id">>, PKColumns |-> <<1>>,
   Indexes |-> <<[Name |-> "PRIMARY", Columns |-> <<"id">>]>>]
TableNoPK ==
  [Name |-> "nopk", Columns |-> <<"c", "noidx">>, PKColumns |-> <<>>,
   Indexes |-> <<[Name |-> "c_k", Columns |-> <<"c">>]>>]

\* schema.Engine.GetTable: NilTable when the table is unknown.
GetTable(name) ==
  CASE name = "t" -> TableT
    [] name = "u" -> TableU
    [] name = "nopk" -> TableNoPK
    [] OTHER -> NilTable

\* schema.Table.GetPKColumn(i).Name, i counted from 0.
GetPKColumnName(table, i) == table.Columns[table.PKColumns[i + 1]]

(***************************************************************************)
(* The heap of bind-variable maps.  A Go map is a reference: a map is an   *)
(* address of the heap, its entries are heap[address].  The caller's       *)
(* original map lives at OrigAddr, the maps split makes at 1, 2, ...       *)
(***************************************************************************)
OrigAddr == 0
EmptyMap == <<>>
MapSet(m, k, v) == (k :> v) @@ m

\* NewQuerySplitter.
NewQuerySplitter(sql, bindVariables, splitColumn, splitCount) ==
  [sql |-> sql,
   bindVariables |-> bindVariables,
   splitCount |-> IF splitCount < 1 THEN 1 ELSE splitCount,
   sel |-> NilSel,
   tableName |-> "",
   splitColumn |-> splitColumn,
   rowCount |-> Int64(0)]

\* IsIndexed looking the column up among the table's columns.
IsColumn(table, column) ==
  \E c \in 1..Len(table.Columns) : table.Columns[c] = column

\* Whether some index of the table has the column.
IsIndexed(table, column) ==
  \E i \in 1..Len(table.Indexes) :
    \E c \in 1..Len(table.Indexes[i].Columns) : table.Indexes[i].Columns[c] = column

\* unsupportedShape without the check of the locking clause.
unsupportedShapeLockAllowed(sel) ==
  \/ sel.Distinct # ""
  \/ sel.GroupBy # <<>>
  \/ sel.Having # NilWhere
  \/ Len(sel.From) # 1
  \/ sel.OrderBy # <<>>
  \/ sel.Limit # <<>>

\* The clauses and FROM shapes validateQuery turns down.
unsupportedShape(sel) ==
  \/ sel.Distinct # ""
  \/ sel.GroupBy # <<>>
  \/ sel.Having # NilWhere
  \/ Len(sel.From) # 1
  \/ sel.OrderBy # <<>>
  \/ sel.Limit # <<>>
  \/ sel.Lock # ""

\* validateQuery: [qs, err], qs as the method leaves the splitter.
validateQuery(qs) ==
  LET parsed == Parse(qs.sql)
      ok == parsed.err = NilErr /\ parsed.stmt.stmt = "select"
      qs1 == [qs EXCEPT !.sel = IF ok THEN parsed.stmt ELSE NilSel]
      sel == qs1.sel
      node == sel.From[1]
      qs2 == [qs1 EXCEPT !.tableName = GetTableName(node.Expr)]
      table == GetTable(qs2.tableName)
  IN  IF parsed.err # NilErr THEN [qs |-> qs, err |-> parsed.err]
      ELSE IF ~ok THEN [qs |-> qs1, err |-> Errorf("not a select statement")]
      ELSE IF unsupportedShape(sel)
           THEN [qs |-> qs1, err |-> Errorf("unsupported query")]
      ELSE IF node.kind # "aliased" THEN [qs |-> qs1, err |-> Errorf("unsupported query")]
      ELSE IF qs2.tableName = ""
           THEN [qs |-> qs2, err |-> Errorf("not a simple table expression")]
      ELSE IF table = NilTable
           THEN [qs |-> qs2, err |-> Errorf("can't find table in schema")]
      ELSE IF Len(table.PKColumns) = 0 THEN [qs |-> qs2, err |-> Errorf("no primary keys")]
      ELSE IF qs2.splitColumn # ""
           THEN IF IsIndexed(table, qs2.splitColumn) THEN [qs |-> qs2, err |-> NilErr]
                ELSE [qs |-> qs2,
                      err |-> [msg |-> "split column is not indexed or does not exist in table schema",
                               SplitColumn |-> qs2.splitColumn,
                               Table |-> table]]
      ELSE [qs |-> [qs2 EXCEPT !.splitColumn = GetPKColumnName(table, 0)], err |-> NilErr]

(***************************************************************************)
(* The (min, max) result the caller hands to split: a *sqltypes.Result.    *)
(***************************************************************************)
NilResult == [isNil |-> TRUE, Rows |-> <<>>]
Result(rows) == [isNil |-> FALSE, Rows |-> rows]

\* The guard the three numeric variants share: no usable (min, max) row.
NoMinMax(pkMinMax) ==
  \/ pkMinMax.isNil
  \/ Len(pkMinMax.Rows) # 1
  \/ IsNull(pkMinMax.Rows[1][1])
  \/ IsNull(pkMinMax.Rows[1][2])

\* What a splitBoundaries variant returns, with the rowCount field it leaves.
Boundaries(b, err, rowCount) == [boundaries |-> b, err |-> err, rowCount |-> rowCount]

\* intBoundary counting the rounds from 0.
intBoundaryFromZero(min, interval, i) == WrapInt(min + interval * (i - 1))

\* The i-th boundary of the signed variant: min + interval*i, in int64.
intBoundary(min, interval, i) == WrapInt(min + interval * i)

\* intRowCount adding to the estimate of the call before.
intRowCountAdded(qs, interval) ==
  IF qs.rowCount.t = "int64" THEN Int64(WrapInt(qs.rowCount.n + interval))
  ELSE Int64(interval)

\* qs.rowCount = interval
intRowCount(qs, interval) == Int64(interval)

\* splitBoundariesIntColumn, once min and max are parsed.
intBoundaries(qs, min, max) ==
  LET interval == Quot(WrapInt(max.n - min.n), qs.splitCount)
  IN  IF min.err # NilErr THEN Boundaries(<<>>, min.err, qs.rowCount)
      ELSE IF max.err # NilErr THEN Boundaries(<<>>, max.err, qs.rowCount)
      ELSE IF interval = 0 THEN Boundaries(<<>>, max.err, qs.rowCount)
      ELSE Boundaries([i \in 1..(qs.splitCount - 1) |->
                         BuildValueInt64(intBoundary(min.n, interval, i))],
                      NilErr, intRowCount(qs, interval))

splitBoundariesIntColumn(qs, pkMinMax) ==
  IF NoMinMax(pkMinMax) THEN Boundaries(<<>>, NilErr, qs.rowCount)
  ELSE intBoundaries(qs, ParseInt64(pkMinMax.Rows[1][1]), ParseInt64(pkMinMax.Rows[1][2]))

\* splitBoundariesUintColumn, once min and max are parsed.
uintBoundaries(qs, min, max) ==
  LET interval == WrapUint(max.n - min.n) \div qs.splitCount
  IN  IF min.err # NilErr THEN Boundaries(<<>>, min.err, qs.rowCount)
      ELSE IF max.err # NilErr THEN Boundaries(<<>>, max.err, qs.rowCount)
      ELSE IF interval = 0 THEN Boundaries(<<>>, max.err, qs.rowCount)
      ELSE Boundaries([i \in 1..(qs.splitCount - 1) |->
                         BuildValueUint64(WrapUint(min.n + interval * i))],
                      NilErr, Int64(WrapInt(interval)))

splitBoundariesUintColumn(qs, pkMinMax) ==
  IF NoMinMax(pkMinMax) THEN Boundaries(<<>>, NilErr, qs.rowCount)
  ELSE uintBoundaries(qs, ParseUint64(pkMinMax.Rows[1][1]), ParseUint64(pkMinMax.Rows[1][2]))

FracSub(a, b) == Frac(a[1] * b[2] - b[1] * a[2], a[2] * b[2])
FracAdd(a, b) == Frac(a[1] * b[2] + b[1] * a[2], a[2] * b[2])
FracMul(a, k) == Frac(a[1] * k, a[2])
FracDiv(a, k) == Frac(a[1], a[2] * k)
\* int64(f): the fraction truncated toward zero.
FracToInt64(a) == Quot(a[1], a[2])

\* splitBoundariesFloatColumn, once min and max are parsed.
floatBoundaries(qs, min, max) ==
  LET interval == FracDiv(FracSub(max.n, min.n), qs.splitCount)
  IN  IF min.err # NilErr THEN Boundaries(<<>>, min.err, qs.rowCount)
      ELSE IF max.err # NilErr THEN Boundaries(<<>>, max.err, qs.rowCount)
      ELSE IF interval[1] = 0 THEN Boundaries(<<>>, max.err, qs.rowCount)
      ELSE Boundaries([i \in 1..(qs.splitCount - 1) |->
                         BuildValueFloat64(FracAdd(min.n, FracMul(interval, i)))],
                      NilErr, Int64(FracToInt64(interval)))

splitBoundariesFloatColumn(qs, pkMinMax) ==
  IF NoMinMax(pkMinMax) THEN Boundaries(<<>>, NilErr, qs.rowCount)
  ELSE floatBoundaries(qs, ParseFloat(pkMinMax.Rows[1][1]), ParseFloat(pkMinMax.Rows[1][2]))

\* (0xFFFFFFFF + 1) / n in base 2^16, most significant digit first.
SplitSize(n) ==
  LET q1 == 1 \div n
      r1 == 1 % n
      q2 == (r1 * (2 ^ 16)) \div n
      r2 == (r1 * (2 ^ 16)) % n
      q3 == (r2 * (2 ^ 16)) \div n
  IN  <<q1, q2, q3>>

\* binary.BigEndian.PutUint32(buf, uint32(splitSize) * uint32(i)): four bytes.
PutUint32Scaled(splitSize, i) ==
  LET lo == splitSize[3] * i
      hi == (splitSize[2] * i + lo \div (2 ^ 16)) % (2 ^ 16)
      lo16 == lo % (2 ^ 16)
  IN  <<hi \div 256, hi % 256, lo16 \div 256, lo16 % 256>>

splitBoundariesStringColumn(qs) ==
  LET splitSize == SplitSize(qs.splitCount)
  IN  Boundaries([i \in 1..(qs.splitCount - 1) |->
                    BuildValueBytes(PutUint32Scaled(splitSize, i))],
                 NilErr, Int64Limbs(splitSize))

splitBoundaries(qs, columnType, pkMinMax) ==
  CASE IsSigned(columnType) -> splitBoundariesIntColumn(qs, pkMinMax)
    [] IsUnsigned(columnType) -> splitBoundariesUintColumn(qs, pkMinMax)
    [] IsFloat(columnType) -> splitBoundariesFloatColumn(qs, pkMinMax)
    [] IsBinary(columnType) -> splitBoundariesStringColumn(qs)
    [] OTHER -> Boundaries(<<>>, NilErr, qs.rowCount)

\* getWhereClause: [where, heap]; the bounds are written into the map at bindVars.
getWhereClause(qs, whereClause, heap, bindVars, start, end) ==
  LET pk == qs.splitColumn
      startClause == <<"cmp", ">=", pk, ":_splitquery_start">>
      endClause == <<"cmp", "<", pk, ":_splitquery_end">>
      heap1 == IF ~IsNull(start)
               THEN [heap EXCEPT ![bindVars] = MapSet(@, startBindVarName, ToNative(start))]
               ELSE heap
      heap2 == IF ~IsNull(end)
               THEN [heap1 EXCEPT ![bindVars] = MapSet(@, endBindVarName, ToNative(end))]
               ELSE heap1
      clauses == IF IsNull(start) THEN endClause
                 ELSE IF IsNull(end) THEN startClause
                 ELSE <<"and", startClause, endClause>>
      conjoined == IF whereClause # NilWhere
                   THEN <<"and", <<"paren", whereClause.Expr>>, <<"paren", clauses>>>>
                   ELSE clauses
  IN  IF IsNull(start) /\ IsNull(end) THEN [where |-> whereClause, heap |-> heap]
      ELSE [where |-> [Type |-> "where", Expr |-> conjoined], heap |-> heap2]

\* copyBindVars handing out the original map itself.
shareBindVars(heap, bindVariables, addr) == [addr |-> bindVariables, heap |-> heap]

\* bindVars := make(map); for k, v := range qs.bindVariables { bindVars[k] = v }:
\* a new map at address addr holding the original's entries.
copyBindVars(heap, bindVariables, addr) ==
  [addr |-> addr, heap |-> (addr :> heap[bindVariables]) @@ heap]

\* originalSplit carrying the splitter's row count.
originalSplitWithRowCount(qs) ==
  [Sql |-> qs.sql, BindVariables |-> qs.bindVariables, RowCount |-> qs.rowCount]

\* The single split of the original query.
originalSplit(qs) ==
  [Sql |-> qs.sql, BindVariables |-> qs.bindVariables, RowCount |-> Int64(0)]

\* resetWhere left out.
resetWhereSkipped(sel, whereClause) == sel

\* qs.sel.Where = whereClause, after the loop.
resetWhere(sel, whereClause) == [sel EXCEPT !.Where = whereClause]

RECURSIVE splitLoop(_, _, _, _, _)
\* The loop of split from its k-th round on; st is [sel, heap, splits].
splitLoop(qs, whereClause, boundaries, k, st) ==
  IF k > Len(boundaries) THEN st
  ELSE
    LET start == IF k = 1 THEN NullValue ELSE boundaries[k - 1]
        end == boundaries[k]
        made == copyBindVars(st.heap, qs.bindVariables, k)
        w == getWhereClause(qs, whereClause, made.heap, made.addr, start, end)
        sel == [st.sel EXCEPT !.Where = w.where]
        split == [Sql |-> String(sel), BindVariables |-> made.addr, RowCount |-> qs.rowCount]
    IN  splitLoop(qs, whereClause, boundaries, k + 1,
                  [sel |-> sel, heap |-> w.heap, splits |-> Append(st.splits, split)])

\* split after the loop: the WHERE clause is put back.
splitDone(qs, whereClause, st, err) ==
  [qs |-> [qs EXCEPT !.sel = resetWhere(st.sel, whereClause)],
   heap |-> st.heap, splits |-> st.splits, err |-> err]

\* split, once splitBoundaries has returned b and set qs.rowCount.
splitFrom(qs, heap, b) ==
  IF b.err # NilErr THEN [qs |-> qs, heap |-> heap, splits |-> <<>>, err |-> b.err]
  ELSE IF Len(b.boundaries) = 0
       THEN [qs |-> qs, heap |-> heap, splits |-> <<originalSplit(qs)>>, err |-> b.err]
  ELSE splitDone(qs, qs.sel.Where,
                 splitLoop(qs, qs.sel.Where, Append(b.boundaries, NullValue), 1,
                           [sel |-> qs.sel, heap |-> heap, splits |-> <<>>]),
                 b.err)

\* The splitter as splitBoundaries leaves it.
withRowCount(qs, b) == [qs EXCEPT !.rowCount = b.rowCount]

\* split after its call of splitBoundaries, which returned b.
splitWith(qs, heap, b) == splitFrom(withRowCount(qs, b), heap, b)

\* split: [qs, heap, splits, err], qs and heap as the method leaves them.
split(qs, heap, columnType, pkMinMax) ==
  splitWith(qs, heap, splitBoundaries(qs, columnType, pkMinMax))

(***************************************************************************)
(* The inputs.                                                             *)
(***************************************************************************)
ColumnInputs == {"", "idx", "noidx", "nocol"}
SplitCountInputs == 0..MaxSplitCount
BindVariableInputs == {EmptyMap, ("a" :> Int64(1))}
ColumnTypes == {"INT64", "UINT64", "FLOAT64", "VARBINARY", "DATETIME"}

\* A non-null cell of the (min, max) row holding the decimal text of n.
Cell(n) == [typ |-> "VARBINARY", val |-> FormatInt(n)]
Malformed == [typ |-> "VARBINARY", val |-> <<"1", "x">>]

\* The numbers a column of the type holds in the rows tried.
NumberInputs(columnType) ==
  CASE IsSigned(columnType) -> MinInt..MaxInt
    [] IsUnsigned(columnType) -> 0..MaxUint
    [] IsFloat(columnType) -> (-1)..MaxSplitCount
    [] OTHER -> {0}

\* Cells that are no number of the type: a text that is no number, NULL, and
\* one value beyond each end of the type's range.
BadCells(columnType) ==
  {Malformed, NullValue} \cup
    {Cell(n) : n \in
       CASE IsSigned(columnType) -> {MinInt - 1, MaxInt + 1}
         [] IsUnsigned(columnType) -> {-1, MaxUint + 1}
         [] OTHER -> {}}

\* What the query SELECT MIN(col), MAX(col) can have returned: nothing, no
\* row, several rows, a row with min <= max, or a row with a cell of BadCells.
PkMinMaxInputs(columnType) ==
  {NilResult, Result(<<>>), Result(<<<<Cell(0), Cell(1)>>, <<Cell(0), Cell(1)>>>>)}
    \cup {Result(<<<<Cell(p[1]), Cell(p[2])>>>>) :
            p \in {q \in NumberInputs(columnType) \X NumberInputs(columnType) :
                     q[1] <= q[2]}}
    \cup {Result(<<<<a, b>>>>) :
            a \in BadCells(columnType) \cup {Cell(0)},
            b \in BadCells(columnType) \cup {Cell(0)}}

Input(columnType, pkMinMax) == [columnType |-> columnType, pkMinMax |-> pkMinMax]
NoInput == Input("", NilResult)
NoOutput == [splits |-> <<>>, err |-> NilErr]

AllInputs == UNION {{Input(t, r) : r \in PkMinMaxInputs(t)} : t \in ColumnTypes}

\* The inputs of the calls after the first: the first call's own, and a few
\* of every outcome.
RepeatInputs ==
  {Input("INT64", Result(<<<<Cell(0), Cell(MaxInt)>>>>)),
   Input("VARBINARY", Result(<<<<Cell(0), Cell(MaxInt)>>>>)),
   Input("INT64", Result(<<<<Malformed, Cell(0)>>>>))}

(***************************************************************************)
(* The state.                                                              *)
(***************************************************************************)
VARIABLES
  req,      \* the arguments NewQuerySplitter was called with
  qs,       \* the QuerySplitter
  phase,    \* "new", then "validated" or "rejected" by validateQuery
  valErr,   \* what validateQuery returned
  heap,     \* the bind-variable maps: OrigAddr the caller's, 1.. the last result's
  lastIn,   \* the arguments of the last split call
  lastOut,  \* what the last split call returned
  again,    \* the last split call had the arguments of the one before
  wrote     \* the caller's write to a returned map since the last split call

vars == <<req, qs, phase, valErr, heap, lastIn, lastOut, again, wrote>>

NoWrite == [split |-> 0, key |-> ""]

Init ==
  /\ req \in [sql : SqlTexts, bindVariables : BindVariableInputs,
              splitColumn : ColumnInputs, splitCount : SplitCountInputs]
  /\ qs = NewQuerySplitter(req.sql, OrigAddr, req.splitColumn, req.splitCount)
  /\ heap = (OrigAddr :> req.bindVariables)
  /\ phase = "new"
  /\ valErr = NilErr
  /\ lastIn = NoInput
  /\ lastOut = NoOutput
  /\ again = FALSE
  /\ wrote = NoWrite

Validate ==
  /\ phase = "new"
  /\ LET r == validateQuery(qs)
     IN  /\ qs' = r.qs
         /\ valErr' = r.err
         /\ phase' = IF r.err = NilErr THEN "validated" ELSE "rejected"
  /\ UNCHANGED <<req, heap, lastIn, lastOut, again, wrote>>

\* split is called only after validateQuery returned nil.  The maps of the
\* result before are dropped from the heap.
Split(columnType, pkMinMax) ==
  /\ phase = "validated"
  /\ LET r == split(qs, (OrigAddr :> heap[OrigAddr]), columnType, pkMinMax)
     IN  /\ qs' = r.qs
         /\ heap' = r.heap
         /\ lastOut' = [splits |-> r.splits, err |-> r.err]
  /\ lastIn' = Input(columnType, pkMinMax)
  /\ again' = (lastIn = Input(columnType, pkMinMax))
  /\ wrote' = NoWrite
  /\ UNCHANGED <<req, phase, valErr>>

\* The caller writes bind variable key of the i-th returned split.
WriteBindVar(i, key, value) ==
  /\ wrote = NoWrite
  /\ i \in 1..Len(lastOut.splits)
  /\ heap' = [heap EXCEPT ![lastOut.splits[i].BindVariables] = MapSet(@, key, value)]
  /\ wrote' = [split |-> i, key |-> key]
  /\ UNCHANGED <<req, qs, phase, valErr, lastIn, lastOut, again>>

\* The first call takes any input; a later call repeats the one before or
\* takes one of RepeatInputs.
SplitInputs == IF lastIn = NoInput THEN AllInputs ELSE {lastIn} \cup RepeatInputs

Next ==
  \/ Validate
  \/ \E in \in SplitInputs : Split(in.columnType, in.pkMinMax)

Spec == Init /\ [][Next]_vars

\* The splitter with a caller that writes to the maps it was given back.
NextWrite ==
  \/ Validate
  \/ \E in \in RepeatInputs : Split(in.columnType, in.pkMinMax)
  \/ \E i \in 1..MaxSplitCount, key \in {"a", startBindVarName} :
       WriteBindVar(i, key, Int64(MaxInt))

SpecWrite == Init /\ [][NextWrite]_vars

(***************************************************************************)
(* What the properties below speak of.                                     *)
(***************************************************************************)
Called == lastIn # NoInput
MinCell == lastIn.pkMinMax.Rows[1][1]
MaxCell == lastIn.pkMinMax.Rows[1][2]
OneRow == ~NoMinMax(lastIn.pkMinMax)
\* The integers the two cells' texts denote.
MinNum == ParseDecimal(MinCell.val).n
MaxNum == ParseDecimal(MaxCell.val).n
Signed == IsSigned(lastIn.columnType)
Unsigned == IsUnsigned(lastIn.columnType)
Float == IsFloat(lastIn.columnType)

\* The row is one non-null row both of whose cells parse as the column's type.
Parsed ==
  /\ OneRow
  /\ CASE Signed -> ParseInt64(MinCell).err = NilErr /\ ParseInt64(MaxCell).err = NilErr
       [] Unsigned -> ParseUint64(MinCell).err = NilErr /\ ParseUint64(MaxCell).err = NilErr
       [] Float -> ParseFloat(MinCell).err = NilErr /\ ParseFloat(MaxCell).err = NilErr
       [] OTHER -> TRUE

\* The interval of the numeric variants is zero, as the code computes it.
ZeroInterval ==
  CASE Signed -> Quot(WrapInt(MaxNum - MinNum), qs.splitCount) = 0
    [] Unsigned -> WrapUint(MaxNum - MinNum) \div qs.splitCount = 0
    [] OTHER -> MaxNum = MinNum

HasToken(sql, token) == \E k \in 1..Len(sql) : sql[k] = token
Splits == lastOut.splits
BindVarsOf(j) == heap[Splits[j].BindVariables]
HasStart(j) == HasToken(Splits[j].Sql, ":_splitquery_start")
HasEnd(j) == HasToken(Splits[j].Sql, ":_splitquery_end")
\* Whether a row with value v in the split column satisfies split j's range predicate.
Covers(j, v) ==
  /\ HasStart(j) => v >= BindVarsOf(j)[startBindVarName].n
  /\ HasEnd(j) => v < BindVarsOf(j)[endBindVarName].n
ColumnDomain == IF Signed THEN MinInt..MaxInt ELSE 0..MaxUint

\* C1: for a signed, unsigned or float column and one non-null parseable row
\* with max - min < splitCount and a zero interval, split returns an error
\* and no splits.
C1_RangeTooSmallIsError ==
  (phase = "validated" /\ Called /\ (Signed \/ Unsigned \/ Float) /\ Parsed
     /\ MaxNum - MinNum < qs.splitCount /\ ZeroInterval)
  => (lastOut.err # NilErr /\ Splits = <<>>)

\* C2: for a signed or unsigned column and one non-null parseable row with
\* max - min >= splitCount, the difference taken as a mathematical integer,
\* split returns exactly splitCount splits.
C2_ExactlySplitCount ==
  (phase = "validated" /\ Called /\ (Signed \/ Unsigned) /\ Parsed
     /\ MaxNum - MinNum >= qs.splitCount)
  => (lastOut.err = NilErr /\ Len(Splits) = qs.splitCount)

\* C3: for every successful split on an integer column with min <= max, the
\* boundaries are strictly increasing and every value of the column is in the
\* range of exactly one split.
C3_DisjointCover ==
  (phase = "validated" /\ Called /\ (Signed \/ Unsigned) /\ Parsed
     /\ MinNum <= MaxNum /\ lastOut.err = NilErr)
  => /\ \A j \in 1..(Len(Splits) - 2) :
          BindVarsOf(j)[endBindVarName].n < BindVarsOf(j + 1)[endBindVarName].n
     /\ \A v \in ColumnDomain : Cardinality({j \in 1..Len(Splits) : Covers(j, v)}) = 1

\* C4: in every state after validation, whatever split calls were made and
\* whatever they returned, the statement's WHERE clause is the one the
\* statement was parsed with.
C4_WhereRestored ==
  phase = "validated" => qs.sel.Where = Parse(req.sql).stmt.Where

\* A split call on a statement with a WHERE clause returned several splits.
C4_Witness == Called /\ Len(Splits) > 1 /\ req.sql = SqlWhere

\* The interval of the signed variant, as line 228 computes it in int64.
SignedInterval == Quot(WrapInt(MaxNum - MinNum), qs.splitCount)

\* What C5 says of the k-th split (k from 0) of a signed column.
SignedSplit(k) ==
  LET j == k + 1
      m == BindVarsOf(j)
  IN  /\ HasStart(j) <=> k # 0
      /\ HasEnd(j) <=> k # qs.splitCount - 1
      /\ startBindVarName \in DOMAIN m <=> k # 0
      /\ endBindVarName \in DOMAIN m <=> k # qs.splitCount - 1
      /\ k # 0 => m[startBindVarName] = Int64(MinNum + SignedInterval * k)
      /\ k # qs.splitCount - 1 => m[endBindVarName] = Int64(MinNum + SignedInterval * (k + 1))
      /\ Splits[j].RowCount = Int64(SignedInterval)

\* A signed column, one parseable row with min <= max, and a positive interval.
SignedCase ==
  phase = "validated" /\ Called /\ Signed /\ Parsed /\ MinNum <= MaxNum /\ SignedInterval > 0

\* C5 as claimed: for a signed column with min <= max and interval > 0, split
\* returns splitCount splits in increasing range order, split k bound to
\* [min + interval*k, min + interval*(k+1)) with the first start and the last
\* end absent, each with row estimate interval.
C5_Original ==
  SignedCase
  => /\ lastOut.err = NilErr
     /\ Len(Splits) = qs.splitCount
     /\ \A k \in 0..(qs.splitCount - 1) : SignedSplit(k)

\* C5, amended: the same for splitCount >= 2; for splitCount = 1 the one split
\* returned is the original query with no bound and no row estimate.
C5_SignedSplits ==
  SignedCase
  => /\ lastOut.err = NilErr
     /\ Len(Splits) = qs.splitCount
     /\ qs.splitCount >= 2 => \A k \in 0..(qs.splitCount - 1) : SignedSplit(k)
     /\ qs.splitCount = 1
          => Splits = <<[Sql |-> req.sql, BindVariables |-> OrigAddr, RowCount |-> Int64(0)]>>

\* A signed column was split into the largest number of splits.
C5_Witness == SignedCase /\ qs.splitCount = MaxSplitCount /\ Len(Splits) = MaxSplitCount

\* C6: when the caller asked for a split count <= 1, split on a parseable
\* (min, max) of any column type returns exactly one split: the original SQL
\* text, the original bind variables, row estimate zero.
C6_SingleSplit ==
  (phase = "validated" /\ Called /\ req.splitCount <= 1 /\ Parsed)
  => /\ lastOut.err = NilErr
     /\ Splits = <<[Sql |-> req.sql, BindVariables |-> OrigAddr, RowCount |-> Int64(0)]>>
     /\ heap[OrigAddr] = req.bindVariables

\* A split count of 0 was asked for, and the call computed a row count for
\* the splitter.
C6_Witness ==
  /\ phase = "validated" /\ Called /\ req.splitCount = 0 /\ Parsed /\ Signed
  /\ qs.rowCount # Int64(0)
  /\ req.sql = SqlPlain

\* The statements the claim names: not a SELECT; DISTINCT, GROUP BY, HAVING,
\* ORDER BY, LIMIT or a lock; a FROM clause that is not one plain table; a
\* table absent from the schema or without primary key.
Refused(sql) ==
  LET st == Parse(sql).stmt
      from == st.From[1]
      table == GetTable(from.Expr.Name)
  IN  /\ Parse(sql).err = NilErr
      /\ \/ st.stmt # "select"
         \/ st.Distinct # "" \/ st.GroupBy # <<>> \/ st.Having # NilWhere
         \/ st.OrderBy # <<>> \/ st.Limit # <<>> \/ st.Lock # ""
         \/ Len(st.From) # 1
         \/ from.kind # "aliased"
         \/ from.Expr.kind # "table"
         \/ table = NilTable
         \/ Len(table.PKColumns) = 0

\* C7: validateQuery returns an error for every statement of Refused, and
\* no split call is made on a splitter it turned down.
C7_Refused ==
  /\ (phase # "new" /\ Refused(req.sql)) => (phase = "rejected" /\ valErr # NilErr)
  /\ phase = "rejected" => (~Called /\ lastOut = NoOutput)

\* A statement with a locking clause was turned down.
C7_Witness == phase = "rejected" /\ req.sql = SqlLock

\* The statement is a SELECT of supported shape on one table of the schema.
OnSchemaTable(sql) ==
  LET st == Parse(sql).stmt
  IN  /\ Parse(sql).err = NilErr
      /\ st.stmt = "select"
      /\ st.Distinct = "" /\ st.GroupBy = <<>> /\ st.Having = NilWhere
      /\ st.OrderBy = <<>> /\ st.Limit = <<>> /\ st.Lock = ""
      /\ Len(st.From) = 1
      /\ st.From[1].kind = "aliased"
      /\ st.From[1].Expr.kind = "table"
      /\ GetTable(st.From[1].Expr.Name) # NilTable
ReqTable == GetTable(Parse(req.sql).stmt.From[1].Expr.Name)

\* The columns of the table's indexes, primary and secondary.
IndexColumns(table) ==
  UNION {{table.Indexes[i].Columns[c] : c \in DOMAIN table.Indexes[i].Columns} :
           i \in DOMAIN table.Indexes}

\* The error names the column and the table.
NamesColumnAndTable(err, column, table) ==
  /\ {"SplitColumn", "Table"} \subseteq DOMAIN err
  /\ err.SplitColumn = column
  /\ err.Table.Name = table.Name

\* After validateQuery succeeded the split column is the requested one, which
\* is in an index, or, none requested, the first primary-key column.
ChosenColumn ==
  phase = "validated"
  => IF req.splitColumn # ""
     THEN qs.splitColumn = req.splitColumn /\ req.splitColumn \in IndexColumns(ReqTable)
     ELSE qs.splitColumn = ReqTable.Columns[ReqTable.PKColumns[1]]

C9_SameCallSameResult ==
  [][(Called /\ lastIn' = lastIn) => (lastOut' = lastOut /\ heap' = heap)]_vars

\* A signed column was split twice with the same arguments into several splits.
C9_Witness == again /\ Signed /\ Len(Splits) > 1

\* A step of split (or no step at all).
SplitStep == phase = "validated" /\ Called' /\ wrote' = NoWrite
\* A step of the caller writing to the map of split wrote'.split.
WriteStep == wrote = NoWrite /\ wrote' # NoWrite

\* The map of split j holds the original's entries, and a start exactly when
\* the split has a lower bound (or the original has that key), an end likewise.
IsCopy(j) ==
  LET m == BindVarsOf(j)
      orig == heap[OrigAddr]
  IN  /\ DOMAIN m = DOMAIN orig \cup (IF HasStart(j) THEN {startBindVarName} ELSE {})
                      \cup (IF HasEnd(j) THEN {endBindVarName} ELSE {})
      /\ \A k \in DOMAIN orig :
           (k = startBindVarName /\ HasStart(j)) \/ (k = endBindVarName /\ HasEnd(j))
             \/ m[k] = orig[k]

\* The write changed neither the original map nor the map of another split.
WriteStaysInSplit ==
  /\ heap'[OrigAddr] = heap[OrigAddr]
  /\ \A j \in 1..Len(Splits) :
       j # wrote'.split => heap'[Splits[j].BindVariables] = heap[Splits[j].BindVariables]

\* C10 as claimed: split leaves the original map as it was, every split it
\* returns has a copy of it with its bounds added, and a later write to one
\* returned map shows in no other returned map and not in the original.
C10_Original ==
  [][/\ SplitStep => (heap'[OrigAddr] = heap[OrigAddr] /\ \A j \in 1..Len(Splits') : IsCopy(j)')
     /\ WriteStep => WriteStaysInSplit]_vars

\* C10, amended: the same for the splits of a result of several splits; the
\* single split of the original query carries the caller's original map
\* itself.
C10_OwnBindVars ==
  [][/\ SplitStep => /\ heap'[OrigAddr] = heap[OrigAddr]
                     /\ \A j \in 1..Len(Splits') : IsCopy(j)'
                     /\ Len(Splits') = 1 => Splits'[1].BindVariables = OrigAddr
     /\ (WriteStep /\ Len(Splits) > 1) => WriteStaysInSplit]_vars

\* The caller wrote to the map of one of several splits.
C10_Witness == wrote # NoWrite /\ Len(Splits) > 1
====
